---- MODULE Spec2Model ----
(***************************************************************************)
(* A model of seqtools.py: the exhaustive sequence-variant enumerators,    *)
(* the complement-bundle enumerator and the randomized error injector.     *)
(* Sequences are tuples of one-letter strings; positions keep Python's     *)
(* 0-based numbering, tuples and lists are 1-based TLA+ sequences.         *)
(***************************************************************************)
EXTENDS Integers, Sequences, FiniteSets, TLC

\* ---------------------------------------------------------------- bounds
MaxLen == 3          \* longest input sequence of the enumerators
MaxInsLen == 2       \* longest contiguous insertion block
MaxBundleSeqLen == 19 \* longest input of get_complementary_bundle_sets
MaxErrSeqLen == 3    \* longest input of add_random_freediv_errors

VARIABLES
    pc,                \* position of the call in progress
    seq,               \* the input sequence
    op,                \* the function called
    arg1, arg2,        \* its integer arguments
    pam_end,           \* the end argument of get_randomized_pam_seqs
    raised,            \* the exception the call raised, or "none"
    outset,            \* the set built / returned
    bundle_len,        \* get_complementary_bundle_sets: the outer loop variable
    bundles,           \* its list of (start, end) bundles
    todo,              \* the selections its inner loops have still to visit
    selected_bundles,  \* the selection visited last (<<>>: none yet in this tier)
    added,             \* whether that selection added its sequence to outset
    newseq,            \* the sequence built last
    nerr,              \* add_random_freediv_errors: the error budget
    n_mm, n_del, n_ins, \* its three counts
    cur                \* the sequence handed from one of its steps to the next

callVars == <<op, arg1, arg2, pam_end>>
bundleVars == <<bundle_len, bundles, todo, selected_bundles, added, newseq>>
errVars == <<nerr, n_mm, n_del, n_ins, cur>>
vars == <<pc, seq, callVars, raised, outset, bundleVars, errVars>>

\* ------------------------------------------------------- Python helpers
bases == <<"A", "C", "G", "T">>

Min(a, b) == IF a < b THEN a ELSE b
Max(a, b) == IF a > b THEN a ELSE b

\* a slice bound, as Python normalises it against a sequence of length n
PyIdx(k, n) == IF k < 0 THEN Max(k + n, 0) ELSE Min(k, n)

\* s[i:j]
Slice(s, i, j) ==
    LET a == PyIdx(i, Len(s))
        b == PyIdx(j, Len(s))
    IN  IF a >= b THEN <<>> ELSE SubSeq(s, a + 1, b)

\* s[i:]
SliceFrom(s, i) == Slice(s, i, Len(s))

\* list(range(a, b))
range(a, b) == [k \in 1..Max(b - a, 0) |-> a + k - 1]

\* ''.join(parts)
RECURSIVE join(_)
join(parts) == IF Len(parts) = 0 THEN <<>> ELSE Head(parts) \o join(Tail(parts))

\* s.replace(c, '') for a one-letter c
replace(s, c) == SelectSeq(s, LAMBDA x : x # c)

\* index tuples of itertools.combinations, in its lexicographic order
RECURSIVE CombIdx(_, _, _)
CombIdx(lo, hi, r) ==
    IF r = 0 THEN << <<>> >>
    ELSE IF hi - lo + 1 < r THEN <<>>
    ELSE LET with == CombIdx(lo + 1, hi, r - 1)
         IN  [k \in 1..Len(with) |-> <<lo>> \o with[k]] \o CombIdx(lo + 1, hi, r)

\* list(itertools.combinations(pool, r))
combinations(pool, r) ==
    LET ix == CombIdx(1, Len(pool), r)
    IN  [k \in 1..Len(ix) |-> [j \in 1..r |-> pool[ix[k][j]]]]

\* list(itertools.product(*pools)), in its lexicographic order
RECURSIVE product(_)
product(pools) ==
    IF Len(pools) = 0 THEN << <<>> >>
    ELSE LET rest == product(Tail(pools))
             h == Head(pools)
             nr == Len(rest)
         IN  [k \in 1..(Len(h) * nr) |->
                 <<h[((k - 1) \div nr) + 1]>> \o rest[((k - 1) % nr) + 1]]

\* itertools.product(bases, repeat=n)
product_repeat(n) == product([k \in 1..n |-> bases])

\* the outcome of a call: the exception it raises, or the set it returns
Raise(e) == [raised |-> e, outset |-> {}]
Return(s) == [raised |-> "none", outset |-> s]

\* ------------------------------------------------------------ enumerators
\* variant of DeletionNewseq: the middle slices start at i, not at i + 1
DeletionNewseq_keeps(s, tup) ==
    join(<<Slice(s, 0, tup[1])>>
         \o [k \in 1..(Len(tup) - 1) |-> Slice(s, tup[k], tup[k + 1])]
         \o <<SliceFrom(s, tup[Len(tup)] + 1)>>)

\* the body of the loop of get_deletion_seqs for one tuple (non-empty)
DeletionNewseq(s, tup) ==
    join(<<Slice(s, 0, tup[1])>>
         \o [k \in 1..(Len(tup) - 1) |-> Slice(s, tup[k] + 1, tup[k + 1])]
         \o <<SliceFrom(s, tup[Len(tup)] + 1)>>)

get_deletion_seqs(s, ndel) ==
    LET tups == combinations(range(0, Len(s)), ndel)
    IN  IF \E k \in 1..Len(tups) : Len(tups[k]) = 0
        THEN Raise("IndexError")
        ELSE IF \E k \in 1..Len(tups) :
                    Len(DeletionNewseq(s, tups[k])) # Len(s) - ndel
        THEN Raise("AssertionError")
        ELSE Return({DeletionNewseq(s, tups[k]) : k \in 1..Len(tups)})

\* variant of ContigInsertionPoints: the loop stops one slot early
ContigInsertionPoints_short(s) == range(1, Len(s))

\* for i in range(1, len(seq) + 1)
ContigInsertionPoints(s) == range(1, Len(s) + 1)

get_contiguous_insertion_seqs(s, len_ins) ==
    LET all_insertions == product_repeat(len_ins)
        pts == ContigInsertionPoints(s)
        out == {Slice(s, 0, pts[p]) \o all_insertions[b] \o SliceFrom(s, pts[p]) :
                    p \in 1..Len(pts), b \in 1..Len(all_insertions)}
    IN  IF \E o \in out : Len(o) # Len(s) + len_ins
        THEN Raise("AssertionError")
        ELSE Return(out)

\* variant of InsertionSlots: slots start at 0
InsertionSlots_from0(s) == range(0, Len(s) + 1)

\* list(range(1, len(seq) + 1))
InsertionSlots(s) == range(1, Len(s) + 1)

\* the body of the inner loop of get_insertion_seqs (tup non-empty)
InsertionNewseq(s, tup, ins_bases) ==
    join(<<Slice(s, 0, tup[1])>>
         \o [k \in 1..(Len(tup) - 1) |->
                <<ins_bases[k]>> \o Slice(s, tup[k], tup[k + 1])]
         \o << <<ins_bases[Len(ins_bases)]>> \o SliceFrom(s, tup[Len(tup)]) >>)

get_insertion_seqs(s, nins) ==
    LET tups == combinations(InsertionSlots(s), nins)
        prod == product_repeat(nins)
    IN  IF \E k \in 1..Len(tups), b \in 1..Len(prod) : Len(prod[b]) # Len(tups[k])
        THEN Raise("AssertionError")
        ELSE IF \E k \in 1..Len(tups) : Len(tups[k]) = 0
        THEN Raise("IndexError")
        ELSE IF \E k \in 1..Len(tups), b \in 1..Len(prod) :
                    Len(InsertionNewseq(s, tups[k], prod[b])) # Len(s) + nins
        THEN Raise("AssertionError")
        ELSE Return({InsertionNewseq(s, tups[k], prod[b]) :
                        k \in 1..Len(tups), b \in 1..Len(prod)})

\* variant of MismatchBases: the original base is not removed
MismatchBases_all(s, i) == bases

\* bases.replace(seq[i], ''), i a 0-based position
MismatchBases(s, i) == replace(bases, s[i + 1])

\* the body of the inner loop of get_mismatch_seqs (tup non-empty)
MismatchNewseq(s, tup, mm_bases) ==
    join(<<Slice(s, 0, tup[1])>>
         \o [k \in 1..(Len(mm_bases) - 1) |->
                <<mm_bases[k]>> \o Slice(s, tup[k] + 1, tup[k + 1])]
         \o << <<mm_bases[Len(mm_bases)]>> \o SliceFrom(s, tup[Len(tup)] + 1) >>)

get_mismatch_seqs(s, num_mm) ==
    LET tups == combinations(range(0, Len(s)), num_mm)
        prod(tup) == product([k \in 1..Len(tup) |-> MismatchBases(s, tup[k])])
    IN  IF \E k \in 1..Len(tups) : Len(tups[k]) = 0
        THEN Raise("IndexError")
        ELSE IF \E k \in 1..Len(tups) : \E b \in 1..Len(prod(tups[k])) :
                    Len(MismatchNewseq(s, tups[k], prod(tups[k])[b])) # Len(s)
        THEN Raise("AssertionError")
        ELSE Return(UNION {{MismatchNewseq(s, tups[k], prod(tups[k])[b]) :
                              b \in 1..Len(prod(tups[k]))} : k \in 1..Len(tups)})

\* variant of PamKept5p: the randomized bases, not the PAM bases, are cut
PamKept5p_rand(s, num_pam_bases, num_randomized_bases) ==
    SliceFrom(s, num_randomized_bases)

\* the part of seq that get_randomized_pam_seqs keeps at the 5p end
PamKept5p(s, num_pam_bases, num_randomized_bases) == SliceFrom(s, num_pam_bases)

\* the part of seq that get_randomized_pam_seqs keeps at the 3p end
PamKept3p(s, num_pam_bases, num_randomized_bases) == Slice(s, 0, 0 - num_pam_bases)

get_randomized_pam_seqs(s, num_pam_bases, num_randomized_bases, end) ==
    LET all_randomized == product_repeat(num_randomized_bases)
    IN  IF ~(num_randomized_bases >= num_pam_bases) THEN Raise("AssertionError")
        ELSE IF end = "5p"
        THEN Return({all_randomized[r] \o PamKept5p(s, num_pam_bases, num_randomized_bases) :
                        r \in 1..Len(all_randomized)})
        ELSE IF end # "3p" THEN Raise("AssertionError")
        ELSE Return({PamKept3p(s, num_pam_bases, num_randomized_bases) \o all_randomized[r] :
                        r \in 1..Len(all_randomized)})

\* ------------------------------------------- calls of the enumerators
BaseSet == {bases[i] : i \in 1..Len(bases)}

\* every sequence over the alphabet of length at most n
Seqs(n) == UNION {[1..k -> BaseSet] : k \in 0..n}

Init ==
    /\ pc = "call"
    /\ seq \in Seqs(MaxLen)
    /\ op = "none"
    /\ arg1 = 0
    /\ arg2 = 0
    /\ pam_end = "5p"
    /\ raised = "none"
    /\ outset = {}
    /\ bundle_len = 0
    /\ bundles = <<>>
    /\ todo = <<>>
    /\ selected_bundles = <<>>
    /\ added = FALSE
    /\ newseq = <<>>
    /\ nerr = 0
    /\ n_mm = 0
    /\ n_del = 0
    /\ n_ins = 0
    /\ cur = <<>>

\* the call op(seq, a1, a2, e) runs to its end with outcome r
Called(name, a1, a2, e, r) ==
    /\ pc' = "return"
    /\ op' = name
    /\ arg1' = a1
    /\ arg2' = a2
    /\ pam_end' = e
    /\ raised' = r.raised
    /\ outset' = r.outset
    /\ UNCHANGED <<seq, bundleVars, errVars>>

CallDeletion ==
    /\ pc = "call"
    /\ \E ndel \in 0..(Len(seq) + 1) :
          Called("get_deletion_seqs", ndel, 0, "5p", get_deletion_seqs(seq, ndel))

CallContiguousInsertion ==
    /\ pc = "call"
    /\ \E len_ins \in 0..MaxInsLen :
          Called("get_contiguous_insertion_seqs", len_ins, 0, "5p",
                 get_contiguous_insertion_seqs(seq, len_ins))

CallInsertion ==
    /\ pc = "call"
    /\ \E nins \in 0..(Len(seq) + 1) :
          Called("get_insertion_seqs", nins, 0, "5p", get_insertion_seqs(seq, nins))

CallMismatch ==
    /\ pc = "call"
    /\ \E num_mm \in 0..(Len(seq) + 1) :
          Called("get_mismatch_seqs", num_mm, 0, "5p", get_mismatch_seqs(seq, num_mm))

CallRandomizedPam ==
    /\ pc = "call"
    /\ \E num_pam_bases \in 0..(Len(seq) + 1), num_randomized_bases \in 0..Len(seq),
          e \in {"5p", "3p"} :
          Called("get_randomized_pam_seqs", num_pam_bases, num_randomized_bases, e,
                 get_randomized_pam_seqs(seq, num_pam_bases, num_randomized_bases, e))

Next ==
    \/ CallDeletion
    \/ CallContiguousInsertion
    \/ CallInsertion
    \/ CallMismatch
    \/ CallRandomizedPam

Spec == Init /\ [][Next]_vars

\* ------------------------------------------------ claims, enumerators
Returned(name) == pc = "return" /\ op = name

\* the strings of length n over the alphabet
Strings(n) == [1..n -> BaseSet]

\* number of positions where two equally long sequences differ
Hamming(s, t) == Cardinality({i \in 1..Len(s) : s[i] # t[i]})

RECURSIVE Binom(_, _)
Binom(n, k) == IF k = 0 THEN 1 ELSE IF n = 0 THEN 0
               ELSE Binom(n - 1, k - 1) + Binom(n - 1, k)

RECURSIVE Pow(_, _)
Pow(b, e) == IF e = 0 THEN 1 ELSE b * Pow(b, e - 1)

\* s without the characters at the 0-based positions P, order kept
RECURSIVE Without(_, _)
Without(s, P) ==
    IF Len(s) = 0 THEN <<>>
    ELSE Without(SubSeq(s, 1, Len(s) - 1), P)
         \o (IF (Len(s) - 1) \in P THEN <<>> ELSE <<s[Len(s)]>>)

\* C1: with an edit count of 0, get_deletion_seqs, get_insertion_seqs and
\* get_mismatch_seqs each return normally, and return exactly {seq}.
C1_ZeroEditsSingleton ==
    (/\ pc = "return"
     /\ op \in {"get_deletion_seqs", "get_insertion_seqs", "get_mismatch_seqs"}
     /\ arg1 = 0)
    => (raised = "none" /\ outset = {seq})

\* C2: for 1 <= n <= len(seq), get_mismatch_seqs(seq, n) is exactly the set of
\* strings of length len(seq) that differ from seq in exactly n positions,
\* and so has C(len(seq), n) * 3^n members.
C2_MismatchExact ==
    (Returned("get_mismatch_seqs") /\ 1 <= arg1 /\ arg1 <= Len(seq))
    => (/\ raised = "none"
        /\ outset = {t \in Strings(Len(seq)) : Hamming(seq, t) = arg1}
        /\ Cardinality(outset) = Binom(Len(seq), arg1) * Pow(3, arg1))

C2_Witness ==
    /\ Returned("get_mismatch_seqs")
    /\ Len(seq) = 3
    /\ arg1 = 2
    /\ raised = "none"
    /\ Cardinality(outset) = 27

\* C3: for 1 <= n <= len(seq), get_deletion_seqs(seq, n) is exactly the set of
\* strings left by removing n distinct positions of seq, one candidate per
\* each of the C(len, n) position subsets, every element has length
\* len(seq) - n, and the length assertion does not fail.
C3_DeletionExact ==
    (Returned("get_deletion_seqs") /\ 1 <= arg1 /\ arg1 <= Len(seq))
    => (/\ raised = "none"
        /\ outset = {Without(seq, P) :
                        P \in {Q \in SUBSET (0..(Len(seq) - 1)) : Cardinality(Q) = arg1}}
        /\ \A o \in outset : Len(o) = Len(seq) - arg1
        /\ Len(combinations(range(0, Len(seq)), arg1)) = Binom(Len(seq), arg1))

C3_Witness ==
    /\ Returned("get_deletion_seqs")
    /\ seq = <<"A", "C", "G">>
    /\ arg1 = 2
    /\ outset = {<<"A">>, <<"C">>, <<"G">>}

\* C4 (as stated): get_insertion_seqs("AC", 1) is the eight-member set
\* {AAC, CAC, GAC, TAC, ACA, ACC, ACG, ACT}.
C4_EightMembers ==
    (Returned("get_insertion_seqs") /\ seq = <<"A", "C">> /\ arg1 = 1)
    => outset = {<<"A", "A", "C">>, <<"C", "A", "C">>, <<"G", "A", "C">>,
                 <<"T", "A", "C">>, <<"A", "C", "A">>, <<"A", "C", "C">>,
                 <<"A", "C", "G">>, <<"A", "C", "T">>}

\* C4 (amended): get_insertion_seqs("AC", 1) returns normally the seven-member
\* set {AAC, ACC, AGC, ATC, ACA, ACG, ACT}: one base inserted at slot 1 or at
\* slot 2, never before the first base.
C4_SevenMembers ==
    (Returned("get_insertion_seqs") /\ seq = <<"A", "C">> /\ arg1 = 1)
    => (/\ raised = "none"
        /\ outset = {<<"A", "A", "C">>, <<"A", "C", "C">>, <<"A", "G", "C">>,
                     <<"A", "T", "C">>, <<"A", "C", "A">>, <<"A", "C", "G">>,
                     <<"A", "C", "T">>})

C4_Witness ==
    /\ Returned("get_insertion_seqs")
    /\ seq = <<"A", "C">>
    /\ arg1 = 1
    /\ Cardinality(outset) = 7

\* seq[:i] + block + seq[i:] for an insertion point 0 <= i <= len(seq)
Spliced(s, i, block) == SubSeq(s, 1, i) \o block \o SubSeq(s, i + 1, Len(s))

PamCase == Returned("get_randomized_pam_seqs")
           /\ 1 <= arg1 /\ arg1 <= arg2 /\ arg2 <= Len(seq)

\* C6 (as stated): for 1 <= pamLen <= randLen <= len(seq) the call replaces
\* the randLen bases at the chosen end: {r + seq[randLen:]} for 5p,
\* {seq[:len(seq)-randLen] + r} for 3p, every output of length len(seq).
C6_ReplacesRandLen ==
    PamCase
    => (/\ raised = "none"
        /\ outset = IF pam_end = "5p"
                    THEN {r \o SubSeq(seq, arg2 + 1, Len(seq)) : r \in Strings(arg2)}
                    ELSE {SubSeq(seq, 1, Len(seq) - arg2) \o r : r \in Strings(arg2)}
        /\ \A o \in outset : Len(o) = Len(seq))

\* C6 (amended): the call replaces the pamLen bases at the chosen end by
\* every string of length randLen: {r + seq[pamLen:]} for 5p,
\* {seq[:len(seq)-pamLen] + r} for 3p; every output has length
\* len(seq) - pamLen + randLen and agrees with seq outside the pamLen bases.
C6_ReplacesPamLen ==
    PamCase
    => (/\ raised = "none"
        /\ outset = IF pam_end = "5p"
                    THEN {r \o SubSeq(seq, arg1 + 1, Len(seq)) : r \in Strings(arg2)}
                    ELSE {SubSeq(seq, 1, Len(seq) - arg1) \o r : r \in Strings(arg2)}
        /\ \A o \in outset : Len(o) = Len(seq) - arg1 + arg2)

C6_Witness ==
    /\ PamCase
    /\ pam_end = "5p"
    /\ seq = <<"A", "C", "G">>
    /\ arg1 = 1
    /\ arg2 = 2
    /\ <<"T", "T", "C", "G">> \in outset

\* ------------------------------------------ get_complementary_bundle_sets
\* complements = {'A': 'T', 'T': 'A', 'C': 'G', 'G': 'C'}
complements == [c \in {"A", "T", "C", "G"} |->
                   CASE c = "A" -> "T" [] c = "T" -> "A" [] c = "C" -> "G" [] c = "G" -> "C"]

forward_complement(s) == [i \in 1..Len(s) |-> complements[s[i]]]

\* range(3, 11, 2), the bundle lengths of the outer loop
BundleLenStart == 3
BundleLenStop == 11
BundleLenStep == 2

\* list(range(0, stop, step)), step > 0
range_step(stop, step) ==
    [k \in 1..(IF stop <= 0 THEN 0 ELSE (stop + step - 1) \div step) |-> (k - 1) * step]

\* variant of get_bundles: the last bundle is not extended to the end
get_bundles_plain(L, b) ==
    IF b * 2 > L THEN << <<0, L>> >>
    ELSE LET last == L - (L % b) - b
             starts == range_step(last, b)
         IN  [k \in 1..Len(starts) |-> <<starts[k], starts[k] + b>>]
             \o << <<last, last + b>> >>

\* the bundle list built for a sequence of length L and bundle length b
get_bundles(L, b) ==
    IF b * 2 > L THEN << <<0, L>> >>
    ELSE LET last == L - (L % b) - b
             starts == range_step(last, b)
         IN  [k \in 1..Len(starts) |-> <<starts[k], starts[k] + b>>]
             \o << <<last, L>> >>

\* sum(end - start for start, end in selected_bundles)
RECURSIVE SelectedSpan(_)
SelectedSpan(sel) ==
    IF Len(sel) = 0 THEN 0 ELSE (sel[1][2] - sel[1][1]) + SelectedSpan(Tail(sel))

\* variant of SkipSelected: a strict comparison against the floored third
SkipSelected_floor(s, sel) == Len(s) - SelectedSpan(sel) < Len(s) \div 3

\* len(seq) - sum(...) <= len(seq)/3.0; for integers r and L the float
\* comparison r <= L/3.0 decides exactly as 3*r <= L (r is representable,
\* L/3.0 is correctly rounded and |r - L/3| is 0 or at least 1/3)
SkipSelected(s, sel) == 3 * (Len(s) - SelectedSpan(sel)) <= Len(s)

\* the loop that complements the selected bundles one after the other
RECURSIVE ComplementSelected(_, _)
ComplementSelected(s, sel) ==
    IF Len(sel) = 0 THEN s
    ELSE ComplementSelected(
             Slice(s, 0, sel[1][1])
                 \o forward_complement(Slice(s, sel[1][1], sel[1][2]))
                 \o SliceFrom(s, sel[1][2]),
             Tail(sel))

\* the selections of the two inner loops, in the order they are visited
Selections(bs) == combinations(bs, 2) \o combinations(bs, 3)

\* inputs of the longer runs: the windows of length at most n, starting at
\* the offsets 0..K, of the periodic sequences ACGTACGT... and AACCAACC...
PeriodicInput(L, k) == [i \in 1..L |-> bases[((i + k) % 4) + 1]]
PairedInput(L, k) == [i \in 1..L |-> bases[(((i + k) \div 2) % 2) + 1]]
Windows(n, K) ==
    {PeriodicInput(L, k) : L \in 0..n, k \in 0..K}
    \cup {PairedInput(L, k) : L \in 0..n, k \in 0..K}

InitBundles ==
    /\ pc = "tier"
    /\ seq \in Windows(MaxBundleSeqLen, 3)
    /\ op = "get_complementary_bundle_sets"
    /\ arg1 = 0
    /\ arg2 = 0
    /\ pam_end = "5p"
    /\ raised = "none"
    /\ outset = {}
    /\ bundle_len = BundleLenStart
    /\ bundles = <<>>
    /\ todo = <<>>
    /\ selected_bundles = <<>>
    /\ added = FALSE
    /\ newseq = <<>>
    /\ nerr = 0
    /\ n_mm = 0
    /\ n_del = 0
    /\ n_ins = 0
    /\ cur = <<>>

\* top of the outer loop: build the bundles of this bundle_len
BuildBundles ==
    /\ pc = "tier"
    /\ bundles' = get_bundles(Len(seq), bundle_len)
    /\ todo' = Selections(bundles')
    /\ selected_bundles' = <<>>
    /\ added' = FALSE
    /\ pc' = "select"
    /\ UNCHANGED <<seq, callVars, raised, outset, bundle_len, newseq, errVars>>

\* one pass of the inner loop that hits `continue`
SkipSelection ==
    /\ pc = "select"
    /\ Len(todo) > 0
    /\ SkipSelected(seq, Head(todo))
    /\ selected_bundles' = Head(todo)
    /\ todo' = Tail(todo)
    /\ added' = FALSE
    /\ UNCHANGED <<pc, seq, callVars, raised, outset, bundle_len, bundles, newseq>>
    /\ UNCHANGED errVars

\* one pass of the inner loop that builds newseq and adds it
AddSelection ==
    /\ pc = "select"
    /\ Len(todo) > 0
    /\ ~SkipSelected(seq, Head(todo))
    /\ selected_bundles' = Head(todo)
    /\ todo' = Tail(todo)
    /\ newseq' = ComplementSelected(seq, Head(todo))
    /\ IF Len(newseq') = Len(seq)
       THEN /\ outset' = outset \cup {newseq'}
            /\ added' = TRUE
            /\ UNCHANGED <<pc, raised>>
       ELSE /\ raised' = "AssertionError"
            /\ pc' = "return"
            /\ added' = FALSE
            /\ UNCHANGED outset
    /\ UNCHANGED <<seq, callVars, bundle_len, bundles, errVars>>

\* the inner loops are exhausted: next bundle_len, or return outset
NextBundleLen ==
    /\ pc = "select"
    /\ Len(todo) = 0
    /\ bundle_len' = bundle_len + BundleLenStep
    /\ pc' = IF bundle_len' < BundleLenStop THEN "tier" ELSE "return"
    /\ UNCHANGED <<seq, callVars, raised, outset, bundles, todo,
                   selected_bundles, added, newseq, errVars>>

NextBundles ==
    \/ BuildBundles
    \/ SkipSelection
    \/ AddSelection
    \/ NextBundleLen

SpecBundles == InitBundles /\ [][NextBundles]_vars

\* --------------------------------------------- claims, complement bundles
\* the un-complemented residual span of the selection visited last
Residual == Len(seq) - SelectedSpan(selected_bundles)

\* ceil(n / 3)
CeilThird(n) == (n + 2) \div 3

Visited == pc = "select" /\ Len(selected_bundles) > 0

\* C7: a selection adds its sequence to the output only if it has 2 or 3
\* bundles and leaves a residual of at least ceil(len(seq)/3); a selection
\* with a smaller residual adds nothing; every output has length len(seq).
C7_ResidualAtLeastThird ==
    /\ (Visited /\ added) =>
          (/\ Len(selected_bundles) \in {2, 3}
           /\ Residual >= CeilThird(Len(seq))
           /\ newseq \in outset)
    /\ (Visited /\ Residual < CeilThird(Len(seq))) => ~added
    /\ \A o \in outset : Len(o) = Len(seq)

C7_Witness ==
    /\ Visited
    /\ added
    /\ Len(seq) = 10
    /\ bundle_len = 3
    /\ selected_bundles = << <<0, 3>>, <<3, 6>> >>
    /\ Residual = CeilThird(Len(seq))

\* C8: a selection is skipped only when it leaves less than a third of the
\* sequence un-complemented: every selection visited whose residual is
\* >= len(seq)/3 (a residual of exactly len(seq)/3 included) contributes its
\* forward-complemented sequence to the output.
C8_ThirdContributes ==
    (Visited /\ 3 * Residual >= Len(seq))
    => (added /\ newseq \in outset
        /\ newseq = ComplementSelected(seq, selected_bundles))

\* C9: for 2*b <= L the bundle list tiles the sequence: ascending half-open
\* intervals, the first starting at 0, each starting where the previous
\* ends, the last ending at L, all but the last of length b, the last of
\* length b + (L mod b); for 2*b > L the list is the single bundle (0, L)
\* and the tier has no selection of 2 or 3 bundles.
C9_BundlesTile ==
    pc = "select" =>
        LET L == Len(seq)
            b == bundle_len
            n == Len(bundles)
        IN  /\ b \in {3, 5, 7, 9}
            /\ IF 2 * b <= L
               THEN /\ n >= 2
                    /\ bundles[1][1] = 0
                    /\ \A k \in 1..(n - 1) :
                          /\ bundles[k][2] = bundles[k + 1][1]
                          /\ bundles[k][2] - bundles[k][1] = b
                    /\ bundles[n][2] = L
                    /\ bundles[n][2] - bundles[n][1] = b + (L % b)
               ELSE /\ bundles = << <<0, L>> >>
                    /\ Len(todo) = 0
                    /\ Len(selected_bundles) = 0

C9_Witness ==
    /\ pc = "select"
    /\ Len(seq) = 19
    /\ bundle_len = 9
    /\ bundles = << <<0, 9>>, <<9, 19>> >>

\* ------------------------------------------------ randomized error injector
\* The random module is modelled by the set of values a draw can return.

\* the members of a list
Elems(l) == {l[i] : i \in 1..Len(l)}

\* the lists random.sample(population, k) can return, 0 <= k <= len(population):
\* the values at k distinct positions of the population, in any order
RECURSIVE SampleFrom(_, _, _)
SampleFrom(population, avail, k) ==
    IF k = 0 THEN {<<>>}
    ELSE UNION {{<<population[p]>> \o r : r \in SampleFrom(population, avail \ {p}, k - 1)} :
                    p \in avail}

sample(population, k) == SampleFrom(population, 1..Len(population), k)

\* random.sample raises ValueError for a sample larger than the population
sample_raises(population, k) == k < 0 \/ k > Len(population)

\* n * l, the list l repeated n times
repeat(n, l) == [k \in 1..(n * Len(l)) |-> l[((k - 1) % Len(l)) + 1]]

\* idxs.sort(reverse=True)
RECURSIVE sort_reverse(_)
sort_reverse(l) ==
    IF Len(l) = 0 THEN <<>>
    ELSE LET m == CHOOSE x \in Elems(l) : \A y \in Elems(l) : x >= y
             p == CHOOSE i \in 1..Len(l) : l[i] = m
         IN  <<m>> \o sort_reverse(SubSeq(l, 1, p - 1) \o SubSeq(l, p + 1, Len(l)))

\* variant of fill_or_truncate: a short sequence is returned as it is
fill_or_truncate_nofill(s, slen) == {Slice(s, 0, slen)}

\* the sequences fill_or_truncate(seq, slen) can return
fill_or_truncate(s, slen) ==
    IF Len(s) >= slen THEN {Slice(s, 0, slen)}
    ELSE {s \o fill : fill \in [1..(slen - Len(s)) -> BaseSet]}

\* the loop of add_random_mismatches over the sampled positions
RECURSIVE MismatchesAt(_, _)
MismatchesAt(s, idxs) ==
    IF Len(idxs) = 0 THEN {s}
    ELSE LET i == Head(idxs)
         IN  UNION {MismatchesAt(Slice(s, 0, i) \o <<b>> \o SliceFrom(s, i + 1), Tail(idxs)) :
                        b \in Elems(replace(bases, s[i + 1]))}

\* the sequences add_random_mismatches(seq, nerr) can return
add_random_mismatches(s, n) ==
    UNION {MismatchesAt(s, idxs) : idxs \in sample(range(0, Len(s)), n)}

\* the loop of add_random_deletions over the sorted positions
RECURSIVE DeletionsAt(_, _)
DeletionsAt(s, idxs) ==
    IF Len(idxs) = 0 THEN s
    ELSE LET i == Head(idxs)
         IN  DeletionsAt(Slice(s, 0, i) \o SliceFrom(s, i + 1), Tail(idxs))

\* the sequences add_random_deletions(seq, nerr) can return
add_random_deletions(s, n) ==
    {DeletionsAt(s, idxs) :
        idxs \in {sort_reverse(l) : l \in sample(range(0, Len(s)), n)}}

\* the loop of add_random_insertions over the sorted positions
RECURSIVE InsertionsAt(_, _)
InsertionsAt(s, idxs) ==
    IF Len(idxs) = 0 THEN {s}
    ELSE LET i == Head(idxs)
         IN  UNION {InsertionsAt(Slice(s, 0, i) \o <<b>> \o SliceFrom(s, i), Tail(idxs)) :
                        b \in BaseSet}

\* the sequences add_random_insertions(seq, nerr) can return
add_random_insertions(s, n) ==
    UNION {InsertionsAt(s, idxs) :
              idxs \in {sort_reverse(l) : l \in sample(repeat(n, range(0, Len(s))), n)}}

InitErrors ==
    /\ pc = "draw"
    /\ seq \in Windows(MaxErrSeqLen, 1)
    /\ op = "add_random_freediv_errors"
    /\ arg1 = 0
    /\ arg2 = 0
    /\ pam_end = "5p"
    /\ raised = "none"
    /\ outset = {}
    /\ bundle_len = 0
    /\ bundles = <<>>
    /\ todo = <<>>
    /\ selected_bundles = <<>>
    /\ added = FALSE
    /\ newseq = <<>>
    /\ nerr \in 0..(Len(seq) + 1)
    /\ n_mm = 0
    /\ n_del = 0
    /\ n_ins = 0
    /\ cur = seq

\* a step of the call raises e: the call ends there
Fails(e) ==
    /\ raised' = e
    /\ pc' = "return"
    /\ UNCHANGED cur

\* a step of the call hands one of `outcomes` to the step at `next`
Yields(outcomes, next) ==
    /\ cur' \in outcomes
    /\ pc' = next
    /\ UNCHANGED raised

\* n_mm = randint(0, nerr); n_del = randint(0, nerr - n_mm); n_ins = the rest
DrawCounts ==
    /\ pc = "draw"
    /\ \E mm \in 0..nerr : \E del \in 0..(nerr - mm) :
          /\ n_mm' = mm
          /\ n_del' = del
          /\ n_ins' = nerr - mm - del
    /\ pc' = "mismatches"
    /\ UNCHANGED <<seq, callVars, raised, outset, bundleVars, nerr, cur>>

\* add_random_mismatches(seq, n_mm)
StepMismatches ==
    /\ pc = "mismatches"
    /\ IF sample_raises(range(0, Len(cur)), n_mm)
       THEN Fails("ValueError")
       ELSE Yields(add_random_mismatches(cur, n_mm), "insertions")
    /\ UNCHANGED <<seq, callVars, outset, bundleVars, nerr, n_mm, n_del, n_ins>>

\* add_random_insertions(..., n_ins)
StepInsertions ==
    /\ pc = "insertions"
    /\ IF sample_raises(repeat(n_ins, range(0, Len(cur))), n_ins)
       THEN Fails("ValueError")
       ELSE Yields(add_random_insertions(cur, n_ins), "deletions")
    /\ UNCHANGED <<seq, callVars, outset, bundleVars, nerr, n_mm, n_del, n_ins>>

\* add_random_deletions(..., n_del)
StepDeletions ==
    /\ pc = "deletions"
    /\ IF sample_raises(range(0, Len(cur)), n_del)
       THEN Fails("ValueError")
       ELSE Yields(add_random_deletions(cur, n_del), "fill")
    /\ UNCHANGED <<seq, callVars, outset, bundleVars, nerr, n_mm, n_del, n_ins>>

\* fill_or_truncate(..., len(seq)), whose result the call returns
StepFill ==
    /\ pc = "fill"
    /\ Yields(fill_or_truncate(cur, Len(seq)), "return")
    /\ UNCHANGED <<seq, callVars, outset, bundleVars, nerr, n_mm, n_del, n_ins>>

NextErrors ==
    \/ DrawCounts
    \/ StepMismatches
    \/ StepInsertions
    \/ StepDeletions
    \/ StepFill

SpecErrors == InitErrors /\ [][NextErrors]_vars

\* ------------------------------------------------ claims, error injector
\* C10: for 0 <= nerr <= len(seq) and every outcome of the draws: the three
\* counts are non-negative and sum to nerr; mismatches, insertions and
\* deletions are applied in that order, each to the result of the step
\* before (after the mismatches the sequence differs from seq in n_mm
\* positions, after the insertions it is such a sequence with n_ins bases
\* added), and no step fails; the length before the final step is
\* len(seq) + n_ins - n_del; the returned sequence has length len(seq).
C10_FreedivSteps ==
    nerr <= Len(seq) =>
        /\ raised = "none"
        /\ pc # "draw" =>
              (n_mm >= 0 /\ n_del >= 0 /\ n_ins >= 0 /\ n_mm + n_del + n_ins = nerr)
        /\ pc = "mismatches" => cur = seq
        /\ pc = "insertions" => (Len(cur) = Len(seq) /\ Hamming(seq, cur) = n_mm)
        /\ pc = "deletions" =>
              /\ Len(cur) = Len(seq) + n_ins
              /\ \E P \in SUBSET (0..(Len(cur) - 1)) :
                    /\ Cardinality(P) = n_ins
                    /\ Hamming(seq, Without(cur, P)) = n_mm
        /\ pc = "fill" => Len(cur) = Len(seq) + n_ins - n_del
        /\ pc = "return" => Len(cur) = Len(seq)

C10_Witness ==
    /\ pc = "return"
    /\ raised = "none"
    /\ Len(seq) = 3
    /\ nerr = 3
    /\ n_mm = 1
    /\ n_del = 1
    /\ n_ins = 1
    /\ cur # seq

====
